---- MODULE Spec2Model ----
(***************************************************************************)
(* invenio_oaiserver/percolator.py: the percolator registry               *)
(* (_new_percolator, _delete_percolator, index_sets), the match engine     *)
(* (get_record_sets, record_in_set, find_sets_for_record, percolate_query) *)
(* and the static-set cache (_build_cache), run against a search engine    *)
(* whose writes become searchable only at its next refresh.               *)
(***************************************************************************)
EXTENDS Integers, Sequences, FiniteSets, TLC

VARIABLES
    store,      \* the OAISet table: rows [spec, search_pattern], in table order
    sets,       \* current_oaiserver.sets: the static-set cache (None or a list)
    exists,     \* names of the percolator indices the engine holds
    docs,       \* per percolator index: document id -> body, as written
    visible,    \* per percolator index: document id -> body, as searchable
    pc,         \* per caller: where it stands in its operation
    call,       \* per caller: the function called and its arguments
    loc,        \* per caller: the locals of the running function
    ret,        \* per caller: what the operation returned or raised
    lastReg,    \* history: per set name, the last registry call on its document
    lastGrs,    \* history: the last get_record_sets result, while nothing changed
    nops        \* operations begun so far

vars == <<store, sets, exists, docs, visible, pc, call, loc, ret, lastReg, lastGrs, nops>>

-----------------------------------------------------------------------------
(* Bounds *)

\* operations one run may begin
MaxOps == 3
\* sets that exist, with their percolators, when the process starts
NumFill == 10
\* the second caller begins its operations among the first MaxConcStart of a run
MaxConcStart == 2

Procs == {"w1", "w2"}
\* the set names the operations are called with: a new one and one of the starting sets
Names == {"a", "f1"}
Fillers == {"f" \o ToString(k) : k \in 1..NumFill}

-----------------------------------------------------------------------------
(* Program constants *)

ES_VERSION == 7
\* the engine's page size when a search names none (_percolate_query)
DefaultSize == 10
\* size=20 of percolate_query
PercolateSize == 20

None == "None"
RdmIndex == "rdmrecords-records-record-v4.0.0"
OtherIndex == "authors-author-v1.0.0"
\* current_search.mappings, in its iteration order
Mappings == <<RdmIndex, OtherIndex>>
RdmPercolators == "rdmrecords-records-record-v4.0.0-percolators"
prefix == "oaiset-"

\* search patterns
Physics == "subject:physics"
Star == "*:*"
Empty == ""
\* a pattern the query translator cannot parse
Malformed == "subject:("
Patterns == {None, Empty, Physics, Star, Malformed}

\* records: identity, content-type index, content, explicit set bindings
R1 == [id |-> 1, index |-> RdmIndex, subject |-> "physics", sets |-> {"f1"}]
R2 == [id |-> 2, index |-> RdmIndex, subject |-> "chemistry", sets |-> {"a", "f1"}]
R3 == [id |-> 3, index |-> OtherIndex, subject |-> "physics", sets |-> {}]
Records == {R1, R2, R3}
Batches == {<<R1, R2>>}
\* document_es_ids and document_es_indices of a call without documents: both left
\* out, or of unequal length
IdArgs == {<<[some |-> FALSE, v |-> <<>>], [some |-> FALSE, v |-> <<>>]>>,
           <<[some |-> TRUE, v |-> <<"1">>], [some |-> TRUE, v |-> <<>>]>>}

-----------------------------------------------------------------------------
(* Helpers on finite maps and sequences *)

EmptyMap == [k \in {} |-> None]
Put(m, k, v) == [x \in (DOMAIN m) \cup {k} |-> IF x = k THEN v ELSE m[x]]
Drop(m, k) == [x \in (DOMAIN m) \ {k} |-> m[x]]
Range(s) == {s[k] : k \in DOMAIN s}
Truthy(s) == s # None /\ s # ""
\* an optional argument: given, or left at its default of None
Some(v) == [some |-> TRUE, v |-> v]
Nothing == [some |-> FALSE, v |-> <<>>]
startswith(s, p) == Len(s) >= Len(p) /\ SubSeq(s, 1, Len(p)) = p

-----------------------------------------------------------------------------
(* Index naming and the query translator *)

_build_percolator_index_name(index) ==
    LET suffix == IF ES_VERSION < 7 THEN "" ELSE "-percolators"
    IN  index \o suffix

PercIndices == {_build_percolator_index_name(Mappings[k]) : k \in DOMAIN Mappings}

\* query_string_parser(search_pattern).to_dict()
query_string_parser(search_pattern) == [query_string |-> [query |-> search_pattern]]

\* whether query_string_parser translates the pattern; it raises
\* InvalidPatternError when it does not
Translatable(search_pattern) == search_pattern # Malformed

\* the engine refuses to store a query_string query with no query text
Storable(search_pattern) == search_pattern # None

\* whether a stored query matches a document
Matches(body, document) ==
    LET q == body.query.query_string.query
    IN  CASE q = Star -> TRUE
          [] q = Physics -> document.subject = "physics"
          [] OTHER -> FALSE

-----------------------------------------------------------------------------
(* The search requests *)

\* ids of the searchable documents of percolator index pi matching one document
PercolateMatches(pi, document) ==
    IF pi \notin exists THEN {}
    ELSE {d \in DOMAIN visible[pi] : Matches(visible[pi][d], document)}

\* the documents of the sets the deployment started with, oldest first
FillerIdSeq ==
    [k \in 1..(2 * NumFill) |->
        IF k <= NumFill THEN prefix \o "f" \o ToString(k) ELSE "f" \o ToString(k - NumFill)]

\* the k oldest of the documents F, all of them documents of FillerIdSeq
Oldest(F, k) ==
    LET at == {j \in DOMAIN FillerIdSeq : FillerIdSeq[j] \in F}
    IN  {FillerIdSeq[j] : j \in {i \in at : Cardinality({h \in at : h <= i}) <= k}}

\* a result page: the matching documents when they fit the page; otherwise size of
\* them, any of the others' documents together with the oldest of the starting sets'
Pages(matching, size) ==
    LET F == (matching \cap Range(FillerIdSeq)) \ (Names \cup {prefix \o n : n \in Names})
        N == matching \ F
    IN  IF Cardinality(matching) <= size THEN {matching}
        ELSE {X \cup Oldest(F, size - Cardinality(X)) :
                X \in {Y \in SUBSET N : /\ Cardinality(Y) <= size
                                        /\ size - Cardinality(Y) <= Cardinality(F)}}

\* _percolate_query: the pages the engine may answer with
_percolate_query(index, document) ==
    Pages(PercolateMatches(_build_percolator_index_name(index), document), DefaultSize)

\* create_percolate_query; its {} is a search body with no query, which the engine
\* answers as it answers an empty must list: every document matches
create_percolate_query(percolator_ids, documents, document_es_ids, document_es_indices) ==
    LET q1 == IF documents.some
              THEN <<[t |-> "percolate", documents |-> documents.v, values |-> <<>>]>>
              ELSE [k \in 1..Len(document_es_ids.v) |->
                       [t |-> "percolate", documents |-> <<>>, values |-> <<>>]]
        q2 == IF percolator_ids.some /\ percolator_ids.v # <<>>
              THEN <<[t |-> "ids", documents |-> <<>>, values |-> percolator_ids.v]>>
              ELSE <<>>
    IN  IF documents.some
           \/ (document_es_ids.some /\ document_es_indices.some
               /\ Len(document_es_ids.v) = Len(document_es_indices.v))
        THEN [must |-> q1 \o q2]
        ELSE [must |-> <<>>]

\* the slots (positions) of the submitted documents a stored query matches
Slots(body, documents) == {k \in DOMAIN documents : Matches(body, documents[k])}

ClauseHolds(c, d, body) ==
    CASE c.t = "percolate" -> Slots(body, c.documents) # {}
      [] c.t = "ids" -> d \in Range(c.values)
      [] OTHER -> FALSE

\* hits of the bool/must query on the searchable documents of index pi
QueryHits(pi, query) ==
    {[_id |-> d,
      slots |-> UNION {Slots(visible[pi][d], query.must[k].documents) :
                         k \in {j \in DOMAIN query.must : query.must[j].t = "percolate"}}] :
        d \in {x \in DOMAIN visible[pi] :
                 \A k \in DOMAIN query.must : ClauseHolds(query.must[k], x, visible[pi][x])}}

-----------------------------------------------------------------------------
(* The set store and the cache *)

NoneCache == [none |-> TRUE, list |-> {}]
Specs(rows) == {rows[k].spec : k \in DOMAIN rows}
PatternOf(rows, spec) ==
    IF spec \in Specs(rows)
    THEN (CHOOSE r \in Range(rows) : r.spec = spec).search_pattern
    ELSE None

\* the table after an insert (a new row, last) or an update (in place)
Saved(rows, spec, search_pattern) ==
    IF spec \in Specs(rows)
    THEN [k \in DOMAIN rows |->
             IF rows[k].spec = spec
             THEN [spec |-> spec, search_pattern |-> search_pattern] ELSE rows[k]]
    ELSE Append(rows, [spec |-> spec, search_pattern |-> search_pattern])

Removed(rows, spec) == SelectSeq(rows, LAMBDA r : r.spec # spec)

\* OAISet.query.filter(OAISet.search_pattern.is_(None)).all(), the specs
StaticSpecs(rows) == {r.spec : r \in {x \in Range(rows) : x.search_pattern = None}}

\* the static step of get_record_sets
StaticYield(cache, record) == {spec \in cache : spec \in record.sets}

\* the percolator step of get_record_sets: the names of the prefixed ids
PrefixedNames(ids) ==
    {SubSeq(set_name, Len(prefix) + 1, Len(set_name)) :
        set_name \in {i \in ids : startswith(i, prefix)}}

-----------------------------------------------------------------------------
(* Initial states *)

\* clean, repeat and ensured are history: no set was saved or deleted since the call
\* began; the call repeats the last registry call made for its set; the percolator
\* indices _create_percolator_mapping has returned for within the call, and those
\* it created
NoCall == [fn |-> "", spec |-> "", search_pattern |-> "", percolator_index |-> "",
           percolator_ids |-> Nothing, documents |-> Nothing,
           document_es_ids |-> Nothing, document_es_indices |-> Nothing, clean |-> TRUE,
           repeat |-> FALSE, ensured |-> {}, created |-> {}]
NoLoc == [i |-> 0, cont |-> "", rows |-> <<>>, sets |-> {},
          query |-> query_string_parser(None)]
NoRet == [err |-> "", static |-> {}, names |-> {}, hits |-> {}, value |-> {},
          fresh |-> FALSE, single |-> <<>>]
NoReg == [op |-> "none", search_pattern |-> None]
NoGrs == [some |-> FALSE, record |-> R1, names |-> {}]

FillerRows == [k \in 1..NumFill |-> [spec |-> "f" \o ToString(k), search_pattern |-> Star]]
FillerDocs == [d \in {prefix \o f : f \in Fillers} |-> [query |-> query_string_parser(Star)]]

\* a fresh deployment
EmptyDeployment ==
    [store |-> <<>>, exists |-> {}, docs |-> [pi \in PercIndices |-> EmptyMap]]

\* a deployment that already holds NumFill pattern sets, each registered by
\* _new_percolator and searchable
PopulatedDeployment ==
    [store |-> FillerRows, exists |-> PercIndices, docs |-> [pi \in PercIndices |-> FillerDocs]]

\* the process starts on deployment d with an unset cache and idle callers
StartOn(d) ==
    /\ store = d.store
    /\ exists = d.exists
    /\ docs = d.docs
    /\ visible = d.docs
    /\ sets = NoneCache
    /\ pc = [p \in Procs |-> "idle"]
    /\ call = [p \in Procs |-> NoCall]
    /\ loc = [p \in Procs |-> NoLoc]
    /\ ret = [p \in Procs |-> NoRet]
    /\ lastReg = [n \in Names |-> NoReg]
    /\ lastGrs = NoGrs
    /\ nops = 0

Init == \E d \in {EmptyDeployment, PopulatedDeployment} : StartOn(d)

InitConc == StartOn(EmptyDeployment)

-----------------------------------------------------------------------------
(* Steps shared by the operations *)

\* a caller that is idle holds nothing, so of two idle callers the first begins
CanBegin(p) ==
    /\ pc[p] = "idle"
    /\ nops < MaxOps
    /\ p = "w2" => (pc["w1"] # "idle" /\ nops < MaxConcStart)

\* the content index whose percolator index the caller is working on
CurIndex(p) ==
    CASE call[p].fn \in {"_new_percolator", "_delete_percolator"} -> Mappings[loc[p].i]
      [] call[p].fn = "get_record_sets" -> call[p].documents.v[1].index
      [] OTHER -> RdmIndex

\* the remembered get_record_sets result stands only while nothing but a
\* record_in_set call has acted since
KeepGrs(p) == IF call[p].fn = "record_in_set" THEN lastGrs ELSE NoGrs

Raise(p, err) ==
    /\ pc' = [pc EXCEPT ![p] = "done"]
    /\ ret' = [ret EXCEPT ![p].err = err]

\* _create_percolator_mapping, first half: indices.exists(percolator_index)
EnsureExists(p) ==
    /\ pc[p] = "exists"
    /\ LET percolator_index == _build_percolator_index_name(CurIndex(p))
       IN  IF ES_VERSION = 7 /\ percolator_index \notin exists
           THEN pc' = [pc EXCEPT ![p] = "create"] /\ call' = call
           ELSE /\ pc' = [pc EXCEPT ![p] = loc[p].cont]
                /\ call' = [call EXCEPT ![p].ensured = @ \cup {percolator_index}]
    /\ UNCHANGED <<store, sets, exists, docs, visible, loc, ret, lastReg, lastGrs, nops>>

\* indices.create on an index name: refused when the index is there already
CreateIndex(held, percolator_index) ==
    IF percolator_index \in held
    THEN [ok |-> FALSE, held |-> held]
    ELSE [ok |-> TRUE, held |-> held \cup {percolator_index}]

\* _create_percolator_mapping, second half: indices.create(percolator_index)
EnsureCreate(p) ==
    /\ pc[p] = "create"
    /\ LET percolator_index == _build_percolator_index_name(CurIndex(p))
           r == CreateIndex(exists, percolator_index)
       IN  /\ exists' = r.held
           /\ IF r.ok
              THEN /\ pc' = [pc EXCEPT ![p] = loc[p].cont] /\ ret' = ret
                   /\ call' = [call EXCEPT ![p].ensured = @ \cup {percolator_index},
                                           ![p].created = @ \cup {percolator_index}]
              ELSE Raise(p, "resource_already_exists_exception") /\ call' = call
    /\ lastGrs' = KeepGrs(p)
    /\ UNCHANGED <<store, sets, docs, visible, loc, lastReg, nops>>

\* the caller takes the result; the next operation starts from a clean frame
Return(p) ==
    /\ pc[p] = "done"
    /\ pc' = [pc EXCEPT ![p] = "idle"]
    /\ call' = [call EXCEPT ![p] = NoCall]
    /\ loc' = [loc EXCEPT ![p] = NoLoc]
    /\ ret' = [ret EXCEPT ![p] = NoRet]
    /\ UNCHANGED <<store, sets, exists, docs, visible, lastReg, lastGrs, nops>>

\* the engine's refresh of one index: what was written becomes searchable
Refresh(pi) ==
    /\ pi \in exists
    /\ visible[pi] # docs[pi]
    /\ visible' = [visible EXCEPT ![pi] = docs[pi]]
    /\ lastGrs' = NoGrs
    /\ UNCHANGED <<store, sets, exists, docs, pc, call, loc, ret, lastReg, nops>>

-----------------------------------------------------------------------------
(* The percolator registry *)

\* id='oaiset-{}'.format(spec)
PercolatorId(spec) == prefix \o spec

\* an index call that leaves the id to the engine: a document already standing
\* under the id is kept and the body goes in under a fresh one
IndexDocFreshId(m, id, body) ==
    IF id \in DOMAIN m THEN Put(m, id \o "-2", body) ELSE Put(m, id, body)

\* current_search_client.index(index, id, body): create or replace
IndexDoc(m, id, body) == Put(m, id, body)

\* current_search_client.delete(index, id, ignore=[404])
DeleteDoc(m, id) == Drop(m, id)

\* the calls under way, once the set store has changed under them
Overtaken(c) ==
    IF store' = store THEN c
    ELSE [q \in Procs |-> IF pc[q] # "idle" THEN [c[q] EXCEPT !.clean = FALSE] ELSE c[q]]

\* _new_percolator: the guard and the translation; the loop over the mappings follows
_new_percolator(p, spec, search_pattern) ==
    /\ call' = [Overtaken(call) EXCEPT ![p] =
                   [NoCall EXCEPT !.fn = "_new_percolator", !.spec = spec,
                                  !.search_pattern = search_pattern,
                                  !.repeat = (lastReg[spec] = [op |-> "upsert",
                                                             search_pattern |-> search_pattern])]]
    /\ IF Truthy(spec) /\ Truthy(search_pattern)
       THEN IF Translatable(search_pattern)
            THEN /\ pc' = [pc EXCEPT ![p] = "exists"]
                 /\ loc' = [loc EXCEPT ![p] = [NoLoc EXCEPT !.i = 1, !.cont = "np_index",
                                                  !.query = query_string_parser(search_pattern)]]
                 /\ lastReg' = [lastReg EXCEPT ![spec] = NoReg]
                 /\ UNCHANGED ret
            ELSE /\ Raise(p, "InvalidPatternError")
                 /\ UNCHANGED <<loc, lastReg>>
       ELSE /\ pc' = [pc EXCEPT ![p] = "done"]
            /\ UNCHANGED <<loc, lastReg, ret>>

\* _new_percolator: current_search_client.index for the current mapping
NewPercolatorIndex(p) ==
    /\ pc[p] = "np_index"
    /\ LET percolator_index == _build_percolator_index_name(CurIndex(p))
       IN  docs' = [docs EXCEPT ![percolator_index] =
                       IndexDoc(@, PercolatorId(call[p].spec), [query |-> loc[p].query])]
    /\ IF loc[p].i < Len(Mappings)
       THEN /\ pc' = [pc EXCEPT ![p] = "exists"]
            /\ loc' = [loc EXCEPT ![p].i = @ + 1]
            /\ UNCHANGED lastReg
       ELSE /\ pc' = [pc EXCEPT ![p] = "done"]
            /\ lastReg' = [lastReg EXCEPT ![call[p].spec] =
                              [op |-> "upsert", search_pattern |-> call[p].search_pattern]]
            /\ UNCHANGED loc
    /\ lastGrs' = NoGrs
    /\ UNCHANGED <<store, sets, exists, visible, call, ret, nops>>

\* _delete_percolator: the guard; the loop over the mappings follows
_delete_percolator(p, spec, search_pattern) ==
    /\ call' = [Overtaken(call) EXCEPT ![p] =
                   [NoCall EXCEPT !.fn = "_delete_percolator", !.spec = spec,
                                  !.search_pattern = search_pattern]]
    /\ IF Truthy(spec)
       THEN /\ pc' = [pc EXCEPT ![p] = "exists"]
            /\ loc' = [loc EXCEPT ![p] = [NoLoc EXCEPT !.i = 1, !.cont = "dp_delete"]]
            /\ lastReg' = [lastReg EXCEPT ![spec] = NoReg]
       ELSE /\ pc' = [pc EXCEPT ![p] = "done"]
            /\ UNCHANGED <<loc, lastReg>>
    /\ UNCHANGED ret

\* _delete_percolator: current_search_client.delete for the current mapping
DeletePercolatorDelete(p) ==
    /\ pc[p] = "dp_delete"
    /\ LET percolator_index == _build_percolator_index_name(CurIndex(p))
       IN  docs' = [docs EXCEPT ![percolator_index] = DeleteDoc(@, PercolatorId(call[p].spec))]
    /\ IF loc[p].i < Len(Mappings)
       THEN /\ pc' = [pc EXCEPT ![p] = "exists"]
            /\ loc' = [loc EXCEPT ![p].i = @ + 1]
            /\ UNCHANGED lastReg
       ELSE /\ pc' = [pc EXCEPT ![p] = "done"]
            /\ lastReg' = [lastReg EXCEPT ![call[p].spec] =
                              [op |-> "delete", search_pattern |-> None]]
            /\ UNCHANGED loc
    /\ lastGrs' = NoGrs
    /\ UNCHANGED <<store, sets, exists, visible, call, ret, nops>>

-----------------------------------------------------------------------------
(* The set store's mutation path: the row is written, the cache is         *)
(* invalidated, and the percolator document is re-indexed or deleted       *)

SetSave(p, spec, search_pattern) ==
    /\ CanBegin(p)
    /\ store' = Saved(store, spec, search_pattern)
    /\ sets' = NoneCache
    /\ IF Truthy(search_pattern) \/ ~Truthy(PatternOf(store, spec))
       THEN _new_percolator(p, spec, search_pattern)
       ELSE _delete_percolator(p, spec, search_pattern)
    /\ nops' = nops + 1
    /\ lastGrs' = NoGrs
    /\ UNCHANGED <<exists, docs, visible>>

SetDelete(p, spec) ==
    /\ CanBegin(p)
    /\ spec \in Specs(store)
    /\ store' = Removed(store, spec)
    /\ sets' = NoneCache
    /\ _delete_percolator(p, spec, PatternOf(store, spec))
    /\ nops' = nops + 1
    /\ lastGrs' = NoGrs
    /\ UNCHANGED <<exists, docs, visible>>

\* _delete_percolator called again for a set that is gone
DeleteAgain(p, spec) ==
    /\ CanBegin(p)
    /\ spec \notin Specs(store)
    /\ UNCHANGED <<store, sets>>
    /\ _delete_percolator(p, spec, None)
    /\ nops' = nops + 1
    /\ lastGrs' = NoGrs
    /\ UNCHANGED <<exists, docs, visible>>

-----------------------------------------------------------------------------
(* The static-set cache *)

\* _build_cache, called on its own: sets = current_oaiserver.sets
_build_cache(p) ==
    /\ CanBegin(p)
    /\ call' = [call EXCEPT ![p] = [NoCall EXCEPT !.fn = "_build_cache"]]
    /\ IF sets.none
       THEN pc' = [pc EXCEPT ![p] = "bc_query"] /\ ret' = ret
       ELSE /\ pc' = [pc EXCEPT ![p] = "done"]
            /\ ret' = [ret EXCEPT ![p].value = sets.list]
    /\ nops' = nops + 1
    /\ UNCHANGED <<store, sets, exists, docs, visible, loc, lastReg, lastGrs>>

\* _build_cache: the query of the set store
BuildCacheQuery(p) ==
    /\ pc[p] = "bc_query"
    /\ loc' = [loc EXCEPT ![p].sets = StaticSpecs(store)]
    /\ pc' = [pc EXCEPT ![p] = "bc_store"]
    /\ UNCHANGED <<store, sets, exists, docs, visible, call, ret, lastReg, lastGrs, nops>>

\* _build_cache: sets = current_oaiserver.sets = [...], and what follows the call
BuildCacheStore(p) ==
    /\ pc[p] = "bc_store"
    /\ sets' = [none |-> FALSE, list |-> loc[p].sets]
    /\ IF call[p].fn = "_build_cache"
       THEN /\ pc' = [pc EXCEPT ![p] = "done"]
            /\ ret' = [ret EXCEPT ![p].value = loc[p].sets]
            /\ UNCHANGED loc
       ELSE /\ pc' = [pc EXCEPT ![p] = "exists"]
            /\ ret' = [ret EXCEPT ![p].static = StaticYield(loc[p].sets, call[p].documents.v[1])]
            /\ loc' = [loc EXCEPT ![p].cont = "grs_search"]
    /\ UNCHANGED <<store, exists, docs, visible, call, lastReg, lastGrs, nops>>

-----------------------------------------------------------------------------
(* The match engine *)

\* get_record_sets: the record's bindings, the cache, the static names
get_record_sets(p, record) ==
    /\ CanBegin(p)
    /\ call' = [call EXCEPT ![p] = [NoCall EXCEPT !.fn = "get_record_sets",
                                                  !.documents = Some(<<record>>)]]
    /\ IF sets.none
       THEN pc' = [pc EXCEPT ![p] = "bc_query"] /\ UNCHANGED <<ret, loc>>
       ELSE /\ pc' = [pc EXCEPT ![p] = "exists"]
            /\ ret' = [ret EXCEPT ![p].static = StaticYield(sets.list, record)]
            /\ loc' = [loc EXCEPT ![p].cont = "grs_search"]
    /\ nops' = nops + 1
    /\ lastGrs' = NoGrs
    /\ UNCHANGED <<store, sets, exists, docs, visible, lastReg>>

\* get_record_sets: the percolate request and the names of its matches
GetRecordSetsSearch(p) ==
    /\ pc[p] = "grs_search"
    /\ LET record == call[p].documents.v[1]
           percolator_index == _build_percolator_index_name(record.index)
       IN  \E results \in _percolate_query(record.index, record) :
              /\ ret' = [ret EXCEPT ![p].names = PrefixedNames(results),
                                    ![p].fresh = (visible[percolator_index] = docs[percolator_index])]
              /\ lastGrs' = [some |-> TRUE, record |-> record,
                             names |-> ret[p].static \cup PrefixedNames(results)]
    /\ pc' = [pc EXCEPT ![p] = "done"]
    /\ UNCHANGED <<store, sets, exists, docs, visible, call, loc, lastReg, nops>>

\* get_record_sets: the percolate request fails in the engine (the names of the
\* static step were yielded before it was issued) and the error reaches the caller
GetRecordSetsSearchFails(p) ==
    /\ pc[p] = "grs_search"
    /\ Raise(p, "TransportError")
    /\ lastGrs' = NoGrs
    /\ UNCHANGED <<store, sets, exists, docs, visible, call, loc, lastReg, nops>>

\* percolate_query: its first statement, index_sets(), up to the query of the store
percolate_query(p, fn, percolator_index, percolator_ids, documents, document_es_ids, document_es_indices) ==
    /\ CanBegin(p)
    /\ call' = [call EXCEPT ![p] = [NoCall EXCEPT !.fn = fn, !.percolator_index = percolator_index,
                                                  !.percolator_ids = percolator_ids,
                                                  !.documents = documents,
                                                  !.document_es_ids = document_es_ids,
                                                  !.document_es_indices = document_es_indices]]
    /\ IF store = <<>>
       THEN pc' = [pc EXCEPT ![p] = "pq_search"] /\ UNCHANGED loc
       ELSE /\ pc' = [pc EXCEPT ![p] = "exists"]
            /\ loc' = [loc EXCEPT ![p].rows = store, ![p].cont = "is_write"]
    /\ nops' = nops + 1
    /\ lastGrs' = IF fn = "record_in_set" THEN lastGrs ELSE NoGrs
    /\ UNCHANGED <<store, sets, exists, docs, visible, ret, lastReg>>

record_in_set(p, record, set_spec) ==
    percolate_query(p, "record_in_set", _build_percolator_index_name(RdmIndex),
                    Some(<<set_spec>>), Some(<<record>>), Nothing, Nothing)

find_sets_for_record(p, record) ==
    percolate_query(p, "find_sets_for_record", RdmPercolators, Nothing, Some(<<record>>),
                    Nothing, Nothing)

\* percolate_query on several documents at once
percolate_batch(p, documents) ==
    percolate_query(p, "percolate_query", RdmPercolators, Nothing, Some(documents),
                    Nothing, Nothing)

\* percolate_query with no documents, by identifiers of indexed documents
percolate_by_ids(p, document_es_ids, document_es_indices) ==
    percolate_query(p, "percolate_query", RdmPercolators, Nothing, Nothing,
                    document_es_ids, document_es_indices)

\* the pages of a set of hits
HitPages(hits, size) ==
    {{h \in hits : h._id \in I} : I \in Pages({h._id : h \in hits}, size)}

\* a row index_sets stops at: its pattern does not translate, or the engine
\* refuses its query
Refused(search_pattern) == ~Translatable(search_pattern) \/ ~Storable(search_pattern)

\* the rows index_sets writes before one is refused, and whether one is
FirstRefused(rows) ==
    IF \E k \in DOMAIN rows : Refused(rows[k].search_pattern)
    THEN CHOOSE k \in DOMAIN rows :
            /\ Refused(rows[k].search_pattern)
            /\ \A j \in 1..(k - 1) : ~Refused(rows[j].search_pattern)
    ELSE Len(rows) + 1

\* id=set.spec
IndexSetsId(spec) == spec

\* index_sets: the loop of current_search_client.index over the rows
IndexSetsDocs(m, rows) ==
    LET written == SubSeq(rows, 1, FirstRefused(rows) - 1)
        ids == {IndexSetsId(written[k].spec) : k \in DOMAIN written}
        RowOf(d) == CHOOSE r \in Range(written) : IndexSetsId(r.spec) = d
    IN  [d \in (DOMAIN m) \cup ids |->
            IF d \in ids
            THEN [query |-> query_string_parser(RowOf(d).search_pattern)]
            ELSE m[d]]

IndexSetsWrite(p) ==
    /\ pc[p] = "is_write"
    /\ LET percolator_index == _build_percolator_index_name(RdmIndex)
       IN  docs' = [docs EXCEPT ![percolator_index] = IndexSetsDocs(@, loc[p].rows)]
    /\ IF FirstRefused(loc[p].rows) <= Len(loc[p].rows)
       THEN IF Translatable(loc[p].rows[FirstRefused(loc[p].rows)].search_pattern)
            THEN Raise(p, "RequestError")
            ELSE Raise(p, "InvalidPatternError")
       ELSE pc' = [pc EXCEPT ![p] = "pq_search"] /\ ret' = ret
    /\ lastGrs' = KeepGrs(p)
    /\ UNCHANGED <<store, sets, exists, visible, call, loc, lastReg, nops>>

\* the ids a percolate_query on one document alone may answer with
SingleAnswers(percolator_index, percolator_ids, document) ==
    {{h._id : h \in H} :
        H \in HitPages(QueryHits(percolator_index,
                                 create_percolate_query(percolator_ids, Some(<<document>>),
                                                        Nothing, Nothing)),
                       PercolateSize)}

\* percolate_query: the search and result["hits"]["hits"]
PercolateSearch(p) ==
    /\ pc[p] = "pq_search"
    /\ LET c == call[p]
           query == create_percolate_query(c.percolator_ids, c.documents,
                                           c.document_es_ids, c.document_es_indices)
       IN  IF c.percolator_index \notin exists
           THEN Raise(p, "index_not_found_exception")
           ELSE /\ pc' = [pc EXCEPT ![p] = "done"]
                /\ \E H \in HitPages(QueryHits(c.percolator_index, query), PercolateSize) :
                      ret' = [ret EXCEPT
                                ![p].hits = H,
                                ![p].fresh = (visible[c.percolator_index] = docs[c.percolator_index]),
                                ![p].single =
                                    IF c.documents.some /\ Len(c.documents.v) > 1
                                    THEN [k \in DOMAIN c.documents.v |->
                                             SingleAnswers(c.percolator_index, c.percolator_ids,
                                                           c.documents.v[k])]
                                    ELSE <<>>]
    /\ UNCHANGED <<store, sets, exists, docs, visible, call, loc, lastReg, lastGrs, nops>>

-----------------------------------------------------------------------------
(* The specifications *)

Step(p) ==
    \/ \E n \in Names, s \in Patterns : SetSave(p, n, s)
    \/ \E n \in Names : SetDelete(p, n)
    \/ \E n \in Names : DeleteAgain(p, n)
    \/ _build_cache(p)
    \/ \E r \in Records : get_record_sets(p, r)
    \/ \E r \in Records, n \in Names : record_in_set(p, r, n)
    \/ \E r \in Records : find_sets_for_record(p, r)
    \/ \E b \in Batches : percolate_batch(p, b)
    \/ \E a \in IdArgs : percolate_by_ids(p, a[1], a[2])
    \/ EnsureExists(p)
    \/ EnsureCreate(p)
    \/ NewPercolatorIndex(p)
    \/ DeletePercolatorDelete(p)
    \/ BuildCacheQuery(p)
    \/ BuildCacheStore(p)
    \/ GetRecordSetsSearch(p)
    \/ GetRecordSetsSearchFails(p)
    \/ IndexSetsWrite(p)
    \/ PercolateSearch(p)
    \/ Return(p)

\* one caller at a time
Next ==
    \/ Step("w1")
    \/ \E pi \in PercIndices : Refresh(pi)

Spec == Init /\ [][Next]_vars

\* callers running side by side
NextConc ==
    \/ \E p \in Procs : Step(p)
    \/ \E pi \in PercIndices : Refresh(pi)

SpecConc == InitConc /\ [][NextConc]_vars

-----------------------------------------------------------------------------
(* What the operations returned *)

Done(p, fn) == pc[p] = "done" /\ call[p].fn = fn
Record(p) == call[p].documents.v[1]
HitIds(p) == {h._id : h \in ret[p].hits}

\* the set names a finished match operation answered with
ReturnedNames(p) ==
    CASE call[p].fn = "get_record_sets" -> ret[p].static \cup ret[p].names
      [] call[p].fn = "record_in_set" ->
            IF ret[p].hits # {} THEN Range(call[p].percolator_ids.v) ELSE {}
      [] call[p].fn \in {"find_sets_for_record", "percolate_query"} -> HitIds(p)
      [] OTHER -> {}

MatchFns == {"get_record_sets", "record_in_set", "find_sets_for_record", "percolate_query"}

\* the set a percolator document was written for, by either id convention
DocSet(d) == IF startswith(d, prefix) THEN SubSeq(d, Len(prefix) + 1, Len(d)) ELSE d

-----------------------------------------------------------------------------
(* Claims *)

\* C1: when get_record_sets answers on a refreshed index and the last registry call
\* for a set name was a completed _new_percolator(name, pattern), the name is among
\* the names yielded if and only if the record matches the pattern, however many
\* other stored queries match the record.
C1_UpsertThenMatch ==
    \A p \in Procs :
        (Done(p, "get_record_sets") /\ ret[p].err = "" /\ ret[p].fresh) =>
            \A n \in Names :
                lastReg[n].op = "upsert" =>
                    (n \in ReturnedNames(p)
                        <=> Matches([query |-> query_string_parser(lastReg[n].search_pattern)],
                                    Record(p)))

\* C2: once _delete_percolator has completed for a set that is gone from the store,
\* no match operation answering on a refreshed index returns its name, and a
\* _delete_percolator call never ends in an error.
C2_DeletedNeverMatched ==
    \A p \in Procs :
        /\ (pc[p] = "done" /\ call[p].fn \in MatchFns /\ ret[p].err = "" /\ ret[p].fresh) =>
              \A n \in Names :
                  (lastReg[n].op = "delete" /\ n \notin Specs(store)) => n \notin ReturnedNames(p)
        /\ Done(p, "_delete_percolator") => ret[p].err = ""

\* C3: record_in_set(record, name), called right after get_record_sets(record) with
\* nothing else acting in between, returns true exactly when name was among the
\* names get_record_sets yielded.
C3_InSetIffMatched ==
    \A p \in Procs :
        (Done(p, "record_in_set") /\ ret[p].err = ""
            /\ lastGrs.some /\ lastGrs.record = Record(p)) =>
            (ret[p].hits # {} <=> call[p].percolator_ids.v[1] \in lastGrs.names)

\* C4: _build_cache returns exactly the sets of the store whose search pattern is
\* absent or the empty string.
C4_StaticSetsExact ==
    \A p \in Procs :
        Done(p, "_build_cache") =>
            ret[p].value = {r.spec : r \in {x \in Range(store) :
                                               x.search_pattern \in {None, Empty}}}

\* C5: get_record_sets yields every set of the store that has no search pattern
\* (absent or the empty string) and that the record is bound to, whatever the
\* record's content, and its static step yields only names that are both in the
\* static-set cache and in the record's own bindings.
C5_StaticBound ==
    \A p \in Procs :
        Done(p, "get_record_sets") =>
            /\ \A r \in Range(store) :
                  (r.search_pattern \in {None, Empty} /\ r.spec \in Record(p).sets)
                      => r.spec \in ret[p].static
            /\ ~sets.none
            /\ ret[p].static \subseteq sets.list \cap Record(p).sets

\* C6: a percolate_query on N documents returns exactly N entries, and the stored
\* queries answered for each document are those a percolate_query on that document
\* alone answers with.
C6_BatchPerRecord ==
    \A p \in Procs :
        (Done(p, "percolate_query") /\ call[p].documents.some /\ ret[p].err = "") =>
            /\ Cardinality(ret[p].hits) = Len(call[p].documents.v)
            /\ \A k \in DOMAIN call[p].documents.v :
                  {h._id : h \in {x \in ret[p].hits : k \in x.slots}} \in ret[p].single[k]

\* C7: no caller of _create_percolator_mapping ends in an "already exists" error.
C7_EnsureNeverErrors ==
    \A p \in Procs : ret[p].err # "resource_already_exists_exception"

\* C8: a _build_cache call during which no set was saved or deleted returns the
\* store's current static sets.
C8_CacheCurrent ==
    \A p \in Procs :
        (Done(p, "_build_cache") /\ call[p].clean) => ret[p].value = StaticSpecs(store)

\* C9: each percolator index holds at most one percolator document per set name.
C9_OneDocPerSet ==
    \A pi \in PercIndices, n \in Names :
        Cardinality({d \in DOMAIN docs[pi] : DocSet(d) = n}) <= 1

\* C10: a _new_percolator call that repeats the last registry call made for its set
\* (same name, same pattern, nothing done to the set's document in between) ends
\* without error and none of its steps changes the percolator indices or their
\* documents, written or searchable.
C10_UpsertIdempotent ==
    [][\A p \in Procs :
          (call[p].fn = "_new_percolator" /\ call[p].repeat /\ pc[p] # pc'[p]) =>
              /\ docs' = docs
              /\ exists' = exists
              /\ visible' = visible
              /\ ret'[p].err = ""]_vars

\* C10 witness: a repeated _new_percolator has run to its end, the set's document
\* standing in every percolator index.
C10_Witness ==
    \E p \in Procs :
        /\ Done(p, "_new_percolator")
        /\ call[p].repeat
        /\ Truthy(call[p].search_pattern)
        /\ \A pi \in PercIndices :
              /\ PercolatorId(call[p].spec) \in DOMAIN docs[pi]
              /\ docs[pi][PercolatorId(call[p].spec)]
                    = [query |-> query_string_parser(call[p].search_pattern)]

\* C11: when no operation is under way, no percolator index holds a percolator
\* document for a set of the store whose search pattern is absent or empty.
C11_NoDocForStatic ==
    (\A p \in Procs : pc[p] = "idle") =>
        \A pi \in PercIndices :
            \A d \in DOMAIN docs[pi] :
                DocSet(d) \in Specs(store) => Truthy(PatternOf(store, DocSet(d)))

\* the percolator index a caller's next search-engine request addresses
Addressed(p) ==
    CASE pc[p] \in {"np_index", "dp_delete", "grs_search", "is_write"} ->
            _build_percolator_index_name(CurIndex(p))
      [] OTHER -> call[p].percolator_index

\* C12: every document write, document delete and percolate search a caller issues
\* addresses a percolator index for which _create_percolator_mapping has returned
\* earlier within the same operation.
C12_EnsuredBeforeRequest ==
    [][\A p \in Procs :
          (pc[p] \in {"np_index", "dp_delete", "grs_search", "is_write", "pq_search"}
              /\ pc'[p] # pc[p])
            => Addressed(p) \in call[p].ensured]_vars

\* C13: get_record_sets yields no set name twice: the names of its static step and
\* the names of its percolator step have no name in common.
C13_NamesOnce ==
    \A p \in Procs :
        Done(p, "get_record_sets") => ret[p].static \cap ret[p].names = {}

\* C14: a get_record_sets call that ends in an error has delivered no set name to
\* its caller, neither from the static step nor from the percolator step.
C14_NoPartialResult ==
    \A p \in Procs :
        (Done(p, "get_record_sets") /\ ret[p].err # "") =>
            ret[p].static \cup ret[p].names = {}

\* the document identifier the specification gives the percolator of a set
SetDocId(spec) == "set-" \o spec

\* C15: every operation uses the identifier "set-" followed by the set name:
\* _new_percolator and index_sets leave the sets they write standing under it,
\* _delete_percolator removes exactly it, and every value find_sets_for_record
\* returns is a set name whose identifier is a searchable document.
C15_OneIdConvention ==
    [][\A p \in Procs :
          pc'[p] # pc[p] =>
            /\ pc[p] = "np_index" =>
                  SetDocId(call[p].spec) \in DOMAIN docs'[Addressed(p)]
            /\ (pc[p] = "is_write" /\ pc'[p] = "pq_search") =>
                  \A r \in Range(loc[p].rows) :
                      SetDocId(r.spec) \in DOMAIN docs'[Addressed(p)]
            /\ pc[p] = "dp_delete" =>
                  docs'[Addressed(p)] = Drop(docs[Addressed(p)], SetDocId(call[p].spec))
            /\ (pc[p] = "pq_search" /\ call[p].fn = "find_sets_for_record"
                   /\ ret'[p].err = "") =>
                  \A h \in ret'[p].hits :
                      SetDocId(h._id) \in DOMAIN visible[call[p].percolator_index]]_vars

\* C16: an operation that ends in InvalidPatternError has created no percolator
\* index, and the step that raises it writes or replaces no percolator document.
C16_InvalidPatternNoEffect ==
    [][\A p \in Procs :
          (pc[p] # "done" /\ pc'[p] = "done" /\ ret'[p].err = "InvalidPatternError") =>
              /\ docs' = docs
              /\ exists' = exists
              /\ call[p].created = {}]_vars

\* C17: find_sets_for_record and percolate_query, answering on a refreshed index,
\* return the identifier of every percolator document of the index whose stored
\* query matches a submitted document, however many there are.
C17_AllMatchesReturned ==
    \A p \in Procs :
        (pc[p] = "done" /\ call[p].fn \in {"find_sets_for_record", "percolate_query"}
            /\ call[p].documents.some /\ ret[p].err = "" /\ ret[p].fresh) =>
            HitIds(p) = {d \in DOMAIN visible[call[p].percolator_index] :
                           \E k \in DOMAIN call[p].documents.v :
                               Matches(visible[call[p].percolator_index][d],
                                       call[p].documents.v[k])}

\* C18: no step of get_record_sets, record_in_set or find_sets_for_record changes
\* the percolator documents (identifiers and stored queries) of any percolator index.
C18_MatchReadOnly ==
    [][\A p \in Procs :
          (call[p].fn \in {"get_record_sets", "record_in_set", "find_sets_for_record"}
              /\ pc'[p] # pc[p]) => docs' = docs]_vars

\* C19: when two _new_percolator calls for the same set name have both run to their
\* end without error, every percolator index holds the same stored query for the
\* set.
C19_ConcurrentUpsertsConverge ==
    \A p, q \in Procs :
        (/\ p # q
         /\ Done(p, "_new_percolator") /\ Done(q, "_new_percolator")
         /\ call[p].spec = call[q].spec
         /\ Truthy(call[p].search_pattern) /\ Truthy(call[q].search_pattern)
         /\ ret[p].err = "" /\ ret[q].err = "") =>
            \A pi, pj \in PercIndices :
                /\ PercolatorId(call[p].spec) \in DOMAIN docs[pi]
                /\ docs[pi][PercolatorId(call[p].spec)] = docs[pj][PercolatorId(call[p].spec)]

\* C20: a percolate_query call given no documents, and no document_es_ids and
\* document_es_indices of equal length, returns no hit.
C20_NoInputNoHits ==
    \A p \in Procs :
        (/\ Done(p, "percolate_query")
         /\ ~call[p].documents.some
         /\ ~(/\ call[p].document_es_ids.some /\ call[p].document_es_indices.some
              /\ Len(call[p].document_es_ids.v) = Len(call[p].document_es_indices.v))
         /\ ret[p].err = "") =>
            ret[p].hits = {}

====
